---- MODULE Spec2Model ----
(***************************************************************************)
(* Properly Ordered Card Hands (src/ipynb/Orderable Cards.ipynb).          *)
(*                                                                         *)
(* A hand is a Python string over the suits 'rbRB'; here it is a sequence  *)
(* of one-character strings.  A probability is a fractions.Fraction; here  *)
(* it is a pair <<numerator, denominator>> in lowest terms with a positive *)
(* denominator.  A dict {hand: probability} is a function whose domain is  *)
(* the set of its keys.                                                    *)
(***************************************************************************)
EXTENDS Integers, Sequences, FiniteSets, TLC

VARIABLES
    fn, arg, ret,       \* one call of a sequence function: its name, argument, outcome
    defined,            \* which definitions of deals / orderable are in force
    memo0, memo,        \* the lru_cache of the first deals and of the redefined deals
    running, pos, out,  \* the dict comprehension in progress: its N, the number of
                        \* items of deals(N - 1) consumed, the dict built so far
    omemo,              \* the lru_cache of orderable
    iterated            \* the dict deals(N - 1) the comprehension in progress iterates

vars == <<fn, arg, ret, defined, memo0, memo, running, pos, out, omemo, iterated>>

seqVars == <<fn, arg, ret>>

dealVars == <<defined, memo0, memo, running, pos, out, omemo, iterated>>

\* Bounds of the model.
MaxLen == 4      \* longest arbitrary hand passed to the sequence functions
MaxMoves == 6    \* longest collapsed sequence passed to moves
MaxRuns == 8     \* longest collapsed sequence passed to orderable
MaxOdd == 2      \* longest sequence holding a symbol that is no suit
MaxFull == 6     \* longest arbitrary hand passed to moves
MaxN0 == 4       \* largest N computed by the first deals
MaxN == 6        \* largest N computed by the redefined deals
MaxMemoN == 1    \* largest N of a call of deals while the caches are cleared

\* suits = 'rbRB'
suits == <<"r", "b", "R", "B">>

Suits == {suits[i] : i \in 1..Len(suits)}

-----------------------------------------------------------------------------
(* Python string primitives *)

\* s[a:b] for 0 <= a <= b <= len(s) (Python indices)
Slice(s, a, b) == SubSeq(s, a + 1, b)

\* str.count of a one-character string
Count(s, c) == Cardinality({k \in 1..Len(s) : s[k] = c})

\* `pair in seq` for strings: pair occurs as a substring
Contains(seq, pair) ==
    \E k \in 0..(Len(seq) - Len(pair)) : Slice(seq, k, k + Len(pair)) = pair

\* str.casefold on one character
Casefold(c) ==
    CASE c = "R" -> "r"
      [] c = "B" -> "b"
      [] OTHER -> c

-----------------------------------------------------------------------------
(* collapse *)

RECURSIVE CollapseFrom(_, _)
\* ''.join(hand[i] for i in range(k-1, len(hand)) if i == 0 or hand[i] != hand[i-1])
\* with k the 1-based position of the next character
CollapseFrom(hand, k) ==
    IF k > Len(hand) THEN <<>>
    ELSE IF k = 1 \/ hand[k] # hand[k - 1]
         THEN <<hand[k]>> \o CollapseFrom(hand, k + 1)
         ELSE CollapseFrom(hand, k + 1)

\* collapse with the loop started at the second symbol
collapse_from1(hand) == CollapseFrom(hand, 2)

collapse(hand) == CollapseFrom(hand, 1)

-----------------------------------------------------------------------------
(* ordered *)

\* adjacent_colors with the pair 'bB' left out
adjacent_colors_three(seq) ==
    \E pair \in {<<"r", "R">>, <<"R", "r">>, <<"B", "b">>} : Contains(seq, pair)

adjacent_colors(seq) ==
    \E pair \in {<<"r", "R">>, <<"R", "r">>, <<"B", "b">>, <<"b", "B">>} :
        Contains(seq, pair)

once_each(seq) == Len(seq) = Cardinality({seq[k] : k \in 1..Len(seq)})

colors(seq) == {Casefold(seq[k]) : k \in 1..Len(seq)}

ordered(hand) ==
    LET seq == collapse(hand)
    IN  once_each(seq) /\ (Cardinality(colors(seq)) = 1 \/ ~adjacent_colors(seq))

-----------------------------------------------------------------------------
(* splits, inserts, moves *)

\* splits with j = i + 1 only: the block is always a single card
splits_single(seq) ==
    [i \in 1..Len(seq) |->
        <<Slice(seq, 0, i - 1), Slice(seq, i - 1, i), Slice(seq, i, Len(seq))>>]

\* the list of triples (seq[:i], seq[i:j], seq[j:]), in the order of the two loops
splits(seq) ==
    LET n == Len(seq)
        \* triples for a fixed i, j running over i+1..n
        Row(i) == [d \in 1..(n - i) |->
                     <<Slice(seq, 0, i), Slice(seq, i, i + d), Slice(seq, i + d, n)>>]
        RECURSIVE Rows(_)
        Rows(i) == IF i >= n THEN <<>> ELSE Row(i) \o Rows(i + 1)
    IN  Rows(0)

\* inserts with range(len(others)): the place after the last card is missed
inserts_short(block, others) ==
    [k \in 1..Len(others) |->
        Slice(others, 0, k - 1) \o block \o Slice(others, k - 1, Len(others))]

\* inserts with others[i + 1:]: the card at the place of insertion is lost
inserts_over(block, others) ==
    [k \in 1..(Len(others) + 1) |->
        Slice(others, 0, k - 1) \o block
            \o (IF k > Len(others) THEN <<>> ELSE Slice(others, k, Len(others)))]

\* the list others[:i] + block + others[i:] for i in range(len(others) + 1)
inserts(block, others) ==
    [k \in 1..(Len(others) + 1) |->
        Slice(others, 0, k - 1) \o block \o Slice(others, k - 1, Len(others))]

\* the elements of a list
Elements(list) == {list[k] : k \in 1..Len(list)}

moves(seq) ==
    {collapse(s) : s \in UNION {Elements(inserts(sp[2], sp[1] \o sp[3])) :
                                  sp \in Elements(splits(seq))}}

-----------------------------------------------------------------------------
(* orderable *)

\* the first definition
orderable0(seq) == \E m \in moves(seq) : ordered(m)

\* orderable with the bound one too small
orderable_upto6(seq) == Len(seq) <= 6 /\ \E m \in moves(seq) : ordered(m)

\* the redefinition: sequences longer than 7 are rejected at once
orderable(seq) == Len(seq) <= 7 /\ \E m \in moves(seq) : ordered(m)

-----------------------------------------------------------------------------
(* fractions.Fraction: exact rationals in lowest terms *)

RECURSIVE GCD(_, _)
GCD(a, b) == IF b = 0 THEN a ELSE GCD(b, a % b)

Abs(a) == IF a < 0 THEN -a ELSE a

\* Fraction(n, d), d > 0
Fraction(n, d) == LET g == GCD(Abs(n), d) IN <<n \div g, d \div g>>

\* one = Fraction(1)
one == <<1, 1>>

\* the int 0 that sum() starts from, as a Fraction
zero == <<0, 1>>

\* Fraction * int and Fraction / int (n > 0), cancelling before multiplying
FracMul(p, n) == LET g == GCD(Abs(n), p[2]) IN Fraction(p[1] * (n \div g), p[2] \div g)

FracDiv(p, n) == LET g == GCD(Abs(p[1]), n) IN Fraction(p[1] \div g, p[2] * (n \div g))

\* Fraction + Fraction, over the least common denominator
FracAdd(p, q) ==
    LET g == GCD(p[2], q[2])
    IN  Fraction(p[1] * (q[2] \div g) + q[1] * (p[2] \div g), (p[2] \div g) * q[2])

RECURSIVE SumRange(_, _, _)
\* sum(values[lo..hi]): the additions are exact, so they are grouped by halves
SumRange(values, lo, hi) ==
    IF lo > hi THEN zero
    ELSE IF lo = hi THEN values[lo]
    ELSE LET mid == (lo + hi) \div 2
         IN  FracAdd(SumRange(values, lo, mid), SumRange(values, mid + 1, hi))

sum(values) == SumRange(values, 1, Len(values))

-----------------------------------------------------------------------------
(* dict: the keys in insertion order, and the value at each key *)

EmptyDict == [items |-> <<>>, at |-> <<>>]

\* d[k] = v: a key already present keeps its place and takes the new value
DictSet(d, k, v) ==
    [items |-> IF k \in DOMAIN d.at THEN d.items ELSE Append(d.items, k),
     at |-> (k :> v) @@ d.at]

\* len(d)
DictLen(d) == Len(d.items)

\* d.values(), in the order of the keys
DictValues(d) == [k \in 1..Len(d.items) |-> d.at[d.items[k]]]

-----------------------------------------------------------------------------
(* deals *)

\* the probability with the cards left counted after the deal
NextProbabilityAfter(hand, p, suit) ==
    FracDiv(FracMul(p, 13 - Count(hand, suit)), 52 - (Len(hand) + 1))

\* p * (13 - hand.count(suit)) / (52 - len(hand))
NextProbability(hand, p, suit) ==
    FracDiv(FracMul(p, 13 - Count(hand, suit)), 52 - Len(hand))

\* deals(0)
BaseDeal == DictSet(EmptyDict, <<>>, one)

RECURSIVE Comprehend0(_, _, _, _)
\* the first definition, for one item (hand, p) of deals(N - 1): the loop
\* `for suit in suits` from suits[j] on, adding to the dict d
Comprehend0(d, hand, p, j) ==
    IF j > Len(suits) THEN d
    ELSE Comprehend0(DictSet(d, Append(hand, suits[j]), NextProbability(hand, p, suits[j])),
                     hand, p, j + 1)

RECURSIVE Comprehend(_, _, _, _)
\* the redefinition: the same loop with `if orderable(collapse(hand + suit))`
Comprehend(d, hand, p, j) ==
    IF j > Len(suits) THEN d
    ELSE Comprehend(IF orderable(collapse(Append(hand, suits[j])))
                    THEN DictSet(d, Append(hand, suits[j]), NextProbability(hand, p, suits[j]))
                    ELSE d,
                    hand, p, j + 1)

\* the first definition: sum(p for (hand, p) in deals(N).items() if orderable(collapse(hand)))
orderable_probability0(N) ==
    LET d == memo0[N]
        kept == SelectSeq(d.items, LAMBDA hand : orderable0(collapse(hand)))
    IN  sum([k \in 1..Len(kept) |-> d.at[kept[k]]])

\* the redefinition: sum(deals(N).values())
orderable_probability(N) == sum(DictValues(memo[N]))

-----------------------------------------------------------------------------
(* inputs of the sequence functions *)

RECURSIVE StringsOver(_, _)
\* all sequences of length n over the alphabet
StringsOver(alphabet, n) ==
    IF n = 0 THEN {<<>>}
    ELSE {Append(s, c) : s \in StringsOver(alphabet, n - 1), c \in alphabet}

\* hands of any shape
Hands == UNION {StringsOver(Suits, n) : n \in 0..MaxLen}

RECURSIVE RunsOfLength(_)
\* the collapsed sequences of length n
RunsOfLength(n) ==
    IF n = 0 THEN {<<>>}
    ELSE {s \in {Append(r, c) : r \in RunsOfLength(n - 1), c \in Suits} :
            n = 1 \/ s[n] # s[n - 1]}

Seqs == UNION {RunsOfLength(n) : n \in 0..MaxRuns}

\* sequences holding a symbol outside the four suits
OddHands ==
    UNION {StringsOver(Suits \cup {"x"}, n) \ StringsOver(Suits, n) : n \in 0..MaxOdd}

\* the longer hands, of any shape
FullHands == UNION {StringsOver(Suits, n) : n \in 0..MaxFull}

Inputs == Hands \cup Seqs \cup OddHands \cup FullHands

\* the same sets, as tests of one sequence
OverSuits(s) == \A k \in 1..Len(s) : s[k] \in Suits

IsHand(s) == Len(s) <= MaxLen /\ OverSuits(s)

IsSeq(s) == Len(s) <= MaxRuns /\ OverSuits(s) /\ \A k \in 2..Len(s) : s[k] # s[k - 1]

IsOdd(s) == ~OverSuits(s)

IsFull(s) == Len(s) <= MaxFull /\ OverSuits(s)

-----------------------------------------------------------------------------
(* the sequence functions, each applied to an argument *)

NoCall == [kind |-> "none", value |-> <<>>]

Returned(v) == [kind |-> "return", value |-> v]

NoDeals ==
    /\ defined = "first"
    /\ memo0 = <<>>
    /\ memo = <<>>
    /\ running = -1
    /\ pos = 0
    /\ out = EmptyDict
    /\ omemo = <<>>
    /\ iterated = EmptyDict

InitSeq == fn = "input" /\ arg \in Inputs /\ ret = NoCall /\ NoDeals

Call(f, v) == fn' = f /\ ret' = Returned(v) /\ UNCHANGED <<arg, dealVars>>

CallCollapse ==
    /\ fn = "input"
    /\ IsHand(arg) \/ IsOdd(arg)
    /\ Call("collapse", collapse(arg))

CallOrdered ==
    /\ fn = "input"
    /\ IsHand(arg) \/ IsOdd(arg)
    /\ Call("ordered", ordered(arg))

CallSplits ==
    /\ fn = "input"
    /\ IsHand(arg)
    /\ Call("splits", splits(arg))

CallMoves ==
    /\ fn = "input"
    /\ IF IsFull(arg) THEN TRUE ELSE IsSeq(arg) /\ Len(arg) <= MaxMoves
    /\ Call("moves", moves(arg))

CallOrderable0 ==
    /\ fn = "input"
    /\ IsSeq(arg) \/ IsOdd(arg)
    /\ Call("orderable0", orderable0(arg))

CallOrderable ==
    /\ fn = "input"
    /\ IsSeq(arg) \/ IsOdd(arg)
    /\ Call("orderable", orderable(arg))

NextSeq ==
    \/ CallCollapse
    \/ CallOrdered
    \/ CallSplits
    \/ CallMoves
    \/ CallOrderable0
    \/ CallOrderable

SpecSeq == InitSeq /\ [][NextSeq]_vars

-----------------------------------------------------------------------------
(* the session: deals(0), deals(1), ... under the first definitions, then the
   redefinitions and deals(0), deals(1), ... again.  Each deals(N) finds
   deals(N - 1) in its lru_cache (maxsize 128, so nothing is evicted). *)

Init == fn = "input" /\ arg = <<>> /\ ret = NoCall /\ NoDeals

\* the N of the next call of deals that misses the cache
NextN(cache) == Cardinality(DOMAIN cache)

\* deals(N) under the first definition, N not cached: N = 0 returns at once,
\* otherwise the comprehension over deals(N - 1).items() starts
CallDeals0 ==
    /\ defined = "first"
    /\ running = -1
    /\ NextN(memo0) <= MaxN0
    /\ IF NextN(memo0) = 0
       THEN memo0' = (0 :> BaseDeal) /\ UNCHANGED running
       ELSE running' = NextN(memo0) /\ UNCHANGED memo0
    /\ UNCHANGED <<seqVars, omemo, iterated, defined, memo, pos, out>>

\* one item of deals(N - 1).items(), with its loop over the suits
Step0 ==
    /\ defined = "first"
    /\ running >= 1
    /\ pos < DictLen(memo0[running - 1])
    /\ LET prev == memo0[running - 1]
           hand == prev.items[pos + 1]
       IN  out' = Comprehend0(out, hand, prev.at[hand], 1)
    /\ pos' = pos + 1
    /\ UNCHANGED <<seqVars, omemo, iterated, defined, memo0, memo, running>>

\* the comprehension is exhausted: deals(N) returns the dict and caches it
Return0 ==
    /\ defined = "first"
    /\ running >= 1
    /\ pos = DictLen(memo0[running - 1])
    /\ memo0' = (running :> out) @@ memo0
    /\ running' = -1
    /\ pos' = 0
    /\ out' = EmptyDict
    /\ UNCHANGED <<seqVars, omemo, iterated, defined, memo>>

\* the cell that redefines deals, orderable and orderable_probability
Redefine ==
    /\ defined = "first"
    /\ running = -1
    /\ NextN(memo0) > MaxN0
    /\ defined' = "redefined"
    /\ UNCHANGED <<seqVars, omemo, iterated, memo0, memo, running, pos, out>>

CallDeals ==
    /\ defined = "redefined"
    /\ running = -1
    /\ NextN(memo) <= MaxN
    /\ IF NextN(memo) = 0
       THEN memo' = (0 :> BaseDeal) /\ UNCHANGED running
       ELSE running' = NextN(memo) /\ UNCHANGED memo
    /\ UNCHANGED <<seqVars, omemo, iterated, defined, memo0, pos, out>>

Step ==
    /\ defined = "redefined"
    /\ running >= 1
    /\ pos < DictLen(memo[running - 1])
    /\ LET prev == memo[running - 1]
           hand == prev.items[pos + 1]
       IN  out' = Comprehend(out, hand, prev.at[hand], 1)
    /\ pos' = pos + 1
    /\ UNCHANGED <<seqVars, omemo, iterated, defined, memo0, memo, running>>

Return ==
    /\ defined = "redefined"
    /\ running >= 1
    /\ pos = DictLen(memo[running - 1])
    /\ memo' = (running :> out) @@ memo
    /\ running' = -1
    /\ pos' = 0
    /\ out' = EmptyDict
    /\ UNCHANGED <<seqVars, omemo, iterated, defined, memo0>>

Next ==
    \/ CallDeals0
    \/ Step0
    \/ Return0
    \/ Redefine
    \/ CallDeals
    \/ Step
    \/ Return

Spec == Init /\ [][Next]_vars

-----------------------------------------------------------------------------
(* the redefined deals and orderable behind their lru_caches, called in any
   order, with cache_clear() or the loss of one entry between any two steps *)

RECURSIVE DealsFrom(_, _, _)
\* the comprehension over below.items() from item k on, adding to the dict d
DealsFrom(below, k, d) ==
    IF k > DictLen(below) THEN d
    ELSE LET hand == below.items[k]
         IN  DealsFrom(below, k + 1, Comprehend(d, hand, below.at[hand], 1))

RECURSIVE deals(_)
\* the redefined deals by its body alone, every call computed afresh
deals(N) ==
    IF N = 0 THEN BaseDeal
    ELSE LET below == deals(N - 1) IN DealsFrom(below, 1, EmptyDict)

\* a cache key that takes 'r' and 'R', 'b' and 'B' for the same symbol
KeyFolded(seq) == [k \in 1..Len(seq) |-> Casefold(seq[k])]

\* the key of a call of orderable in its cache: the argument, compared by value
Key(seq) == seq

Hit(cache, seq) == Key(seq) \in DOMAIN cache

Store(cache, seq, v) == (Key(seq) :> v) @@ cache

\* the cache with the entry of key k removed
Without(cache, k) ==
    IF DOMAIN cache \subseteq {k} THEN <<>>
    ELSE [x \in DOMAIN cache \ {k} |-> cache[x]]

\* orderable(seq) through its cache: the value returned
CachedValue(cache, seq) == IF Hit(cache, seq) THEN cache[Key(seq)] ELSE orderable(seq)

RECURSIVE ComprehendCached(_, _, _, _)
\* Comprehend with each orderable(collapse(hand + suit)) going through the cache;
\* st holds the dict built so far and the cache
ComprehendCached(st, hand, p, j) ==
    IF j > Len(suits) THEN st
    ELSE LET seq == collapse(Append(hand, suits[j]))
             v == CachedValue(st.cache, seq)
         IN  ComprehendCached(
                 [d |-> IF v THEN DictSet(st.d, Append(hand, suits[j]),
                                          NextProbability(hand, p, suits[j]))
                        ELSE st.d,
                  cache |-> Store(st.cache, seq, v)],
                 hand, p, j + 1)

\* the sequences orderable is called with from the top level, and the keys
\* that can be lost one at a time
MemoSeqs ==
    {<<>>, <<"r">>, <<"r", "b">>,
     <<"r", "b", "r", "b", "r">>, <<"r", "b", "r", "b", "R">>}

InitMemo ==
    /\ fn = "input" /\ arg = <<>> /\ ret = NoCall
    /\ defined = "redefined"
    /\ memo0 = <<>>
    /\ memo = <<>>
    /\ running = -1
    /\ pos = 0
    /\ out = EmptyDict
    /\ omemo = <<>>
    /\ iterated = EmptyDict

\* orderable(seq) from the top level
CachedOrderable ==
    /\ running = -1
    /\ \E seq \in MemoSeqs :
          LET v == CachedValue(omemo, seq)
          IN  /\ fn' = "orderable"
              /\ arg' = seq
              /\ ret' = Returned(v)
              /\ omemo' = Store(omemo, seq, v)
    /\ UNCHANGED <<defined, memo0, memo, running, pos, out, iterated>>

\* deals(N) from the top level: a hit returns the cached dict, a miss enters
\* the body
CachedDeals ==
    /\ running = -1
    /\ \E N \in 0..MaxMemoN :
          /\ fn' = "deals"
          /\ arg' = N
          /\ IF N \in DOMAIN memo
             THEN ret' = Returned(memo[N]) /\ UNCHANGED <<running, pos>>
             ELSE ret' = NoCall /\ running' = N /\ pos' = -1
    /\ UNCHANGED <<defined, memo0, memo, out, omemo, iterated>>

\* deals(running) returns the dict d: it is cached, and handed to the top
\* level or to the comprehension of deals(running + 1)
Leave(d) ==
    /\ memo' = (running :> d) @@ memo
    /\ pos' = 0
    /\ out' = EmptyDict
    /\ IF running = arg
       THEN /\ ret' = Returned(d)
            /\ running' = -1
            /\ iterated' = EmptyDict
            /\ UNCHANGED <<fn, arg>>
       ELSE /\ running' = running + 1
            /\ iterated' = d
            /\ UNCHANGED seqVars

\* the body of deals(running) starts: N == 0 returns {'': one}; otherwise
\* deals(N - 1) is called, and is found in the cache or entered in its turn
Enter ==
    /\ running >= 0
    /\ pos = -1
    /\ IF running = 0
       THEN Leave(BaseDeal)
       ELSE IF (running - 1) \in DOMAIN memo
            THEN /\ iterated' = memo[running - 1]
                 /\ pos' = 0
                 /\ UNCHANGED <<seqVars, memo, running, out>>
            ELSE /\ running' = running - 1
                 /\ UNCHANGED <<seqVars, memo, pos, out, iterated>>
    /\ UNCHANGED <<defined, memo0, omemo>>

\* one item of the iterated dict, its four calls of orderable going through
\* the cache
StepCached ==
    /\ running >= 1
    /\ pos >= 0
    /\ pos < DictLen(iterated)
    /\ LET hand == iterated.items[pos + 1]
           st == ComprehendCached([d |-> out, cache |-> omemo],
                                  hand, iterated.at[hand], 1)
       IN  out' = st.d /\ omemo' = st.cache
    /\ pos' = pos + 1
    /\ UNCHANGED <<seqVars, defined, memo0, memo, running, iterated>>

\* the comprehension is exhausted
ReturnCached ==
    /\ running >= 1
    /\ pos = DictLen(iterated)
    /\ Leave(out)
    /\ UNCHANGED <<defined, memo0, omemo>>

\* deals.cache_clear()
ClearDeals ==
    /\ DOMAIN memo # {}
    /\ memo' = <<>>
    /\ UNCHANGED <<seqVars, defined, memo0, running, pos, out, omemo, iterated>>

\* orderable.cache_clear()
ClearOrderable ==
    /\ DOMAIN omemo # {}
    /\ omemo' = <<>>
    /\ UNCHANGED <<seqVars, defined, memo0, memo, running, pos, out, iterated>>

\* one entry of the cache of deals is lost
EvictDeals ==
    /\ \E N \in DOMAIN memo : memo' = Without(memo, N)
    /\ UNCHANGED <<seqVars, defined, memo0, running, pos, out, omemo, iterated>>

\* one entry of the cache of orderable is lost
EvictOrderable ==
    /\ \E seq \in MemoSeqs : Hit(omemo, seq) /\ omemo' = Without(omemo, Key(seq))
    /\ UNCHANGED <<seqVars, defined, memo0, memo, running, pos, out, iterated>>

NextMemo ==
    \/ CachedOrderable
    \/ CachedDeals
    \/ Enter
    \/ StepCached
    \/ ReturnCached
    \/ ClearDeals
    \/ ClearOrderable
    \/ EvictDeals
    \/ EvictOrderable

SpecMemo == InitMemo /\ [][NextMemo]_vars

-----------------------------------------------------------------------------
(* Properties of the sequence functions, under SpecSeq *)

\* no two adjacent symbols of s are equal
NoEqualNeighbours(s) == \A k \in 2..Len(s) : s[k] # s[k - 1]

\* seq with the block seq[i:j] taken out and put back at offset k of what is left
Relocated(seq, i, j, k) ==
    LET n == Len(seq)
        b == j - i
        rest == [q \in 1..(n - b) |-> IF q <= i THEN seq[q] ELSE seq[q + b]]
    IN  [q \in 1..n |-> IF q <= k THEN rest[q]
                        ELSE IF q <= k + b THEN seq[i + (q - k)]
                        ELSE rest[q - b]]

\* the relocations of a non-empty block: 0 <= i < j <= len(seq), and the
\* len(seq) - (j - i) + 1 offsets 0..len(seq) - (j - i)
BlockMoves(seq) ==
    UNION {UNION {{collapse(Relocated(seq, i, j, k)) : k \in 0..(Len(seq) - (j - i))} :
                     j \in (i + 1)..Len(seq)} :
              i \in 0..(Len(seq) - 1)}

\* C3: a collapsed sequence of length 0..7 that is not orderable stays not
\* orderable when any suit is appended and the result collapsed.
C3_NonRecoverable ==
    (fn = "orderable" /\ IsSeq(arg) /\ Len(arg) <= 7 /\ ret.value = FALSE)
        => \A t \in Suits : ~orderable(collapse(Append(arg, t)))

\* C3 for the sequences of length 1..7, the ones the notebook's own loop visits
C3_NonEmpty ==
    (fn = "orderable" /\ IsSeq(arg) /\ Len(arg) \in 1..7 /\ ret.value = FALSE)
        => \A t \in Suits : ~orderable(collapse(Append(arg, t)))

\* C4: the first orderable finds no collapsed sequence longer than 7 orderable,
\* and on every collapsed sequence it returns what the length-bounded orderable
\* returns.
C4_LengthBound ==
    (fn = "orderable0" /\ IsSeq(arg))
        => /\ Len(arg) > 7 => ret.value = FALSE
           /\ ret.value = orderable(arg)

C4_Witness == fn = "orderable0" /\ IsSeq(arg) /\ Len(arg) = 8 /\ ret.value = FALSE

\* C7: moves(seq) is the set of collapse(r) over the relocations r of one
\* non-empty block of seq; moves('bRb') is {'Rb', 'bR', 'bRb'}; moves of a
\* sequence of length 1 holds only that sequence; splits(seq) has
\* len(seq) * (len(seq) + 1) / 2 triples.
C7_Moves ==
    /\ (fn = "moves" /\ OverSuits(arg))
          => /\ ret.value = BlockMoves(arg)
             /\ arg = <<"b", "R", "b">>
                   => ret.value = {<<"R", "b">>, <<"b", "R">>, <<"b", "R", "b">>}
             /\ Len(arg) = 1 => ret.value = {arg}
    /\ fn = "splits" => Len(ret.value) = (Len(arg) * (Len(arg) + 1)) \div 2

C7_Witness == fn = "moves" /\ arg = <<"b", "R", "b">> /\ Cardinality(ret.value) = 3

\* C8: collapse(collapse(x)) = collapse(x) for every sequence x over the suits,
\* the empty one included, and collapse(x) has no two equal adjacent symbols.
C8_Idempotent ==
    (fn = "collapse" /\ OverSuits(arg))
        => /\ collapse(ret.value) = ret.value
           /\ NoEqualNeighbours(ret.value)

C8_Witness == fn = "collapse" /\ OverSuits(arg) /\ 0 < Len(ret.value) /\ Len(ret.value) < Len(arg)

\* C9: a call whose argument holds a symbol outside the four suits ends in an
\* error, not in a returned value.
C9_FailFast == (fn # "input" /\ IsOdd(arg)) => ret.kind = "raise"

\* C10: a move of a collapsed sequence gives a sequence at most 3 shorter and
\* never longer.
C10_RunCount ==
    (fn = "moves" /\ OverSuits(arg) /\ NoEqualNeighbours(arg))
        => \A m \in ret.value : Len(arg) - 3 <= Len(m) /\ Len(m) <= Len(arg)

C10_Witness ==
    /\ fn = "moves" /\ OverSuits(arg) /\ NoEqualNeighbours(arg)
    /\ \E m \in ret.value : Len(m) = Len(arg) - 3

\* C12: some move of the full hand h is ordered exactly when some move of
\* collapse(h) is ordered, for every hand h over the suits, although the moves
\* of h may cut a block inside a run of equal suits.
C12_CollapseFirst ==
    (fn = "moves" /\ OverSuits(arg))
        => ((\E m \in ret.value : ordered(m)) <=> orderable0(collapse(arg)))

\* a hand with a run cut by some move, and no move of it ordered
C12_Witness ==
    /\ fn = "moves" /\ OverSuits(arg)
    /\ collapse(arg) # arg
    /\ ret.value \ moves(collapse(arg)) # {}
    /\ ~\E m \in ret.value : ordered(m)

-----------------------------------------------------------------------------
(* Properties of deals, under Spec *)

\* deals(N) has just returned under the first definitions / the redefinitions
Returned0(N) == defined = "first" /\ running = -1 /\ N >= 0 /\ N = NextN(memo0) - 1

ReturnedN(N) == defined = "redefined" /\ running = -1 /\ N >= 0 /\ N = NextN(memo) - 1

RECURSIVE Power(_, _)
Power(b, e) == IF e = 0 THEN 1 ELSE b * Power(b, e - 1)

\* C1: the sum of the redefined deals(N) is the sum, over the first deals(N),
\* of the hands whose collapse is orderable, for every N from 0 on.
C1_SameProbability ==
    \A N \in 0..MaxN0 :
        ReturnedN(N) => orderable_probability(N) = orderable_probability0(N)

\* C1 from N = 1 on
C1_FromOne ==
    \A N \in 1..MaxN0 :
        ReturnedN(N) => orderable_probability(N) = orderable_probability0(N)

\* C2: the keys of the redefined deals(N) are the hands of length N whose
\* collapse is orderable, each with its probability in the first deals(N), for
\* every N from 0 on.
C2_KeptHands ==
    \A N \in 0..MaxN0 :
        ReturnedN(N)
            => /\ DOMAIN memo[N].at = {h \in StringsOver(Suits, N) : orderable(collapse(h))}
               /\ \A h \in DOMAIN memo[N].at : memo[N].at[h] = memo0[N].at[h]

\* C2 from N = 1 on
C2_FromOne ==
    \A N \in 1..MaxN0 :
        ReturnedN(N)
            => /\ DOMAIN memo[N].at = {h \in StringsOver(Suits, N) : orderable(collapse(h))}
               /\ \A h \in DOMAIN memo[N].at : memo[N].at[h] = memo0[N].at[h]

\* C5: the first deals(N) has 4^N entries, one for every string of length N
\* over the suits, and its probabilities sum to 1.
C5_Coverage ==
    \A N \in 0..MaxN0 :
        Returned0(N)
            => /\ DictLen(memo0[N]) = Power(4, N)
               /\ Elements(memo0[N].items) = StringsOver(Suits, N)
               /\ DOMAIN memo0[N].at = StringsOver(Suits, N)
               /\ sum(DictValues(memo0[N])) = one

C5_Witness == Returned0(3) /\ DictLen(memo0[3]) = 64

\* C6: orderable_probability(N) is 1 for N = 1, 2, 3, 4, 213019/249900 for
\* N = 5 and 51083/83895 for N = 6.
C6_Values ==
    /\ \A N \in 1..4 : ReturnedN(N) => orderable_probability(N) = one
    /\ ReturnedN(5) => orderable_probability(5) = <<213019, 249900>>
    /\ ReturnedN(6) => orderable_probability(6) = <<51083, 83895>>

C6_Witness == ReturnedN(5) /\ orderable_probability(5) = <<213019, 249900>>

-----------------------------------------------------------------------------
(* Properties of the caches, under SpecMemo *)

\* C11: whatever calls of orderable and deals were made, and whenever either
\* cache was cleared or lost an entry, every entry of a cache is what the
\* uncached function gives for its key, and every call returned what the
\* uncached function gives for its argument.
C11_Transparent ==
    /\ \A N \in DOMAIN memo : memo[N] = deals(N)
    /\ \A k \in DOMAIN omemo : omemo[k] = orderable(k)
    /\ (fn = "deals" /\ ret.kind = "return") => ret.value = deals(arg)
    /\ (fn = "orderable" /\ ret.kind = "return") => ret.value = orderable(arg)

\* deals(1) has returned and its four lookups of orderable are cached, while
\* deals(0), cached on the way, is lost again
C11_Witness ==
    /\ fn = "deals" /\ ret.kind = "return" /\ arg = 1
    /\ DOMAIN memo = {1}
    /\ DictLen(ret.value) = 4
    /\ DOMAIN omemo = {<<"r">>, <<"b">>, <<"R">>, <<"B">>}

====
